---- MODULE Spec2Model ----
(***************************************************************************)
(* Legacy Logic Pro (src/app.py): the document extraction cascade          *)
(* (text layer, then cloud OCR), the question answerer and the session     *)
(* wiring of the Gradio event handlers.                                    *)
(*                                                                         *)
(* Text is abstracted to what the code looks at: a string is a record      *)
(* [tag, ws, body] where body is the length of the part that starts and    *)
(* ends with a non-whitespace character, ws is the number of leading and   *)
(* trailing whitespace characters around it, and tag tells the content     *)
(* apart ("L": read from the text layer, "O": read by OCR).                *)
(***************************************************************************)
EXTENDS Integers, Sequences, FiniteSets, TLC

VARIABLES
    user_id_state,            \* gr.State(None)
    text_by_page_state,       \* gr.State(None)
    current_filename_state,   \* gr.State("")
    chatbot,                  \* gr.Chatbot value: the conversation
    question_input,           \* gr.Textbox "Your Question"
    login_screen,             \* visible flag of the login column
    dashboard,                \* visible flag of the dashboard column
    login_status,             \* gr.Textbox login status
    process_output,           \* gr.Textbox "Processing Status"
    file_input,               \* gr.File value
    GOOGLE_VISION_API_KEY,    \* TRUE iff the environment sets a key
    last,                     \* record of the most recent handler run
    pending                   \* the answer_question call in flight, if any

vars == <<user_id_state, text_by_page_state, current_filename_state, chatbot,
          question_input, login_screen, dashboard, login_status,
          process_output, file_input, GOOGLE_VISION_API_KEY, last,
          pending>>

----------------------------------------------------------------------------
(* Bounds *)

MaxPages == 2
MaxHistory == 2
MaxStorePages == 11

----------------------------------------------------------------------------
(* Strings *)

EmptyStr == [tag |-> "", ws |-> 0, body |-> 0]

Txt(tag, ws, body) == [tag |-> tag, ws |-> ws, body |-> body]

\* len(text)
StrLen(t) == t.ws + t.body

\* text.strip(): leading and trailing whitespace removed
Strip(t) == IF t.body = 0 THEN EmptyStr ELSE [t EXCEPT !.ws = 0]

\* truth value of a string: non-empty
Truthy(t) == StrLen(t) > 0

----------------------------------------------------------------------------
(* Optional values and page dictionaries.  A dict is the sequence of its   *)
(* items in insertion order.                                               *)

None == [isNone |-> TRUE, items |-> <<>>]

Dict(items) == [isNone |-> FALSE, items |-> items]

\* `not text_by_page`: None and the empty dict are both falsy
Falsy(d) == d.isNone \/ Len(d.items) = 0

RECURSIVE SumChars(_)
\* sum(len(text) for text in text_by_page.values())
SumChars(items) ==
    IF Len(items) = 0 THEN 0
    ELSE StrLen(items[1].text) + SumChars(Tail(items))

Call(op, page) == [op |-> op, page |-> page]

----------------------------------------------------------------------------
(* Program constants *)

\* `if total_chars > 500` in extract_text_from_pdf_fast
QUALITY_THRESHOLD == 500

\* `if total_chars < 100` in process_document
MIN_USABLE_CHARS == 100

----------------------------------------------------------------------------
(* The environment: what the libraries and services answer.                *)

\* page.extract_text() of PyPDF2 for one page: raises, returns None, or
\* returns a string
LayerOutcomes ==
    { [kind |-> "raise", text |-> EmptyStr],
      [kind |-> "none",  text |-> EmptyStr],
      [kind |-> "text",  text |-> Txt("L", 0, 60)],
      [kind |-> "text",  text |-> Txt("L", 1, 250)],    \* padded
      [kind |-> "text",  text |-> Txt("L", 0, 501)] }

\* the Vision endpoint's answer to the request for one page image
VisionOutcomes ==
    { [kind |-> "timeout",    text |-> EmptyStr],
      [kind |-> "http_error", text |-> EmptyStr],       \* status_code /= 200
      [kind |-> "text",       text |-> Txt("O", 1, 50)],  \* padded
      [kind |-> "text",       text |-> Txt("O", 0, 600)] }

BlankLayer(n) == [i \in 1..n |-> [kind |-> "none", text |-> EmptyStr]]
DeadVision(n) == [i \in 1..n |-> [kind |-> "timeout", text |-> EmptyStr]]

\* What a PDF on disk is to the program: whether PdfReader opens it, what
\* each page's text layer gives, whether pdf2image rasterizes it, and what
\* the Vision endpoint answers for each page image.
PdfsOf(n) ==
    { [readable |-> TRUE, layer |-> l, rasterizes |-> TRUE, scan |-> s] :
        l \in [1..n -> LayerOutcomes], s \in [1..n -> VisionOutcomes] }
    \cup
    { [readable |-> TRUE, layer |-> l, rasterizes |-> FALSE,
       scan |-> DeadVision(n)] : l \in [1..n -> LayerOutcomes] }
    \cup
    { [readable |-> FALSE, layer |-> BlankLayer(n), rasterizes |-> TRUE,
       scan |-> s] : s \in [1..n -> VisionOutcomes] }

Pdfs == UNION { PdfsOf(n) : n \in 0..MaxPages }

NoPdf == [readable |-> FALSE, layer |-> <<>>, rasterizes |-> FALSE,
          scan |-> <<>>]

\* An uploaded file: file.name is dir/stem.ext
FileOf(stem, ext, pdf) ==
    [isNone |-> FALSE, stem |-> stem, ext |-> ext, pdf |-> pdf]

NoFile == [isNone |-> TRUE, stem |-> "", ext |-> "", pdf |-> NoPdf]

Files ==
    { FileOf("return", "pdf", p) : p \in Pdfs }
    \cup { FileOf("RETURN", "PDF", p) : p \in PdfsOf(1) }
    \cup { FileOf("notes", "txt", NoPdf), FileOf("scan", "png", NoPdf) }

\* the extension as written, not lowered
LowerLeftOut(ext) == ext

\* str.lower() on the extensions above
Lower(ext) == IF ext = "PDF" THEN "pdf" ELSE ext

----------------------------------------------------------------------------
(* DOCUMENT PROCESSING *)

\* The page loop of extract_text_from_pdf_fast, as left by a variant that
\* lets a page's exception end the loop.
RECURSIVE FastPagesAborting(_, _)
FastPagesAborting(layer, n) ==
    IF n = 0 THEN <<>>
    ELSE LET acc == FastPagesAborting(layer, n - 1)
             text == layer[n].text
         IN  IF \E i \in 1..n : layer[i].kind = "raise" THEN acc
             ELSE IF layer[n].kind = "text" /\ Truthy(text)
                     /\ Truthy(Strip(text))
             THEN Append(acc, [page |-> n, text |-> Strip(text)])
             ELSE acc

\* The page loop of extract_text_from_pdf_fast over the first n pages:
\* text_by_page after it.  A page whose extract_text() raises, returns None
\* or returns blank text adds no entry; the loop goes on.
RECURSIVE FastPages(_, _)
FastPages(layer, n) ==
    IF n = 0 THEN <<>>
    ELSE LET acc == FastPages(layer, n - 1)
             text == layer[n].text
         IN  IF layer[n].kind = "text" /\ Truthy(text) /\ Truthy(Strip(text))
             THEN Append(acc, [page |-> n, text |-> Strip(text)])
             ELSE acc

\* The gate of extract_text_from_pdf_fast, with >= for >.
FastGateInclusive(total_chars) == total_chars >= QUALITY_THRESHOLD

\* `if total_chars > 500`
FastGate(total_chars) == total_chars > QUALITY_THRESHOLD

\* extract_text_from_pdf_fast(pdf_path): ret is what it returns, pages is
\* text_by_page when the loop ended, calls are the library calls it made.
extract_text_from_pdf_fast(pdf) ==
    IF ~pdf.readable
    THEN [ret |-> None, pages |-> <<>>, total_chars |-> 0,
          calls |-> <<Call("PdfReader", 0)>>]
    ELSE LET text_by_page == FastPages(pdf.layer, Len(pdf.layer))
             total_chars == SumChars(text_by_page)
         IN  [ret |-> IF FastGate(total_chars)
                      THEN Dict(text_by_page) ELSE None,
              pages |-> text_by_page,
              total_chars |-> total_chars,
              calls |-> <<Call("PdfReader", 0)>> \o
                        [i \in 1..Len(pdf.layer) |-> Call("extract_text", i)]]

\* ocr_image_with_google_vision, as left by a variant that posts the
\* request again when the first answer carries no text.
VisionWithRetry(outcome, page_num) ==
    [text |-> IF outcome.kind = "text" THEN outcome.text ELSE EmptyStr,
     calls |-> IF outcome.kind = "text"
               THEN <<Call("requests.post", page_num)>>
               ELSE <<Call("requests.post", page_num),
                      Call("requests.post", page_num)>>]

\* ocr_image_with_google_vision(image, page_num, total_pages): one
\* requests.post; the annotation text on a 200 answer that has one, ""
\* on a timeout, another status or an answer without text.
ocr_image_with_google_vision(outcome, page_num) ==
    [text |-> IF outcome.kind = "text" THEN outcome.text ELSE EmptyStr,
     calls |-> <<Call("requests.post", page_num)>>]

\* The page loop of ocr_pdf_with_cloud over the first n page images.
RECURSIVE CloudPages(_, _)
CloudPages(scan, n) ==
    IF n = 0 THEN [pages |-> <<>>, calls |-> <<>>]
    ELSE LET acc == CloudPages(scan, n - 1)
             r == ocr_image_with_google_vision(scan[n], n)
         IN  [pages |-> IF Truthy(r.text) /\ Truthy(Strip(r.text))
                        THEN Append(acc.pages,
                                    [page |-> n, text |-> Strip(r.text)])
                        ELSE acc.pages,
              calls |-> acc.calls \o r.calls]

\* ocr_pdf_with_cloud(pdf_path)
ocr_pdf_with_cloud(pdf, key) ==
    IF ~key
    THEN [ret |-> None, pages |-> <<>>, total_chars |-> 0, calls |-> <<>>]
    ELSE IF ~pdf.rasterizes
    THEN [ret |-> None, pages |-> <<>>, total_chars |-> 0,
          calls |-> <<Call("convert_from_path", 0)>>]
    ELSE LET loop == CloudPages(pdf.scan, Len(pdf.scan))
         IN  [ret |-> IF Len(loop.pages) > 0 THEN Dict(loop.pages) ELSE None,
              pages |-> loop.pages,
              total_chars |-> SumChars(loop.pages),
              calls |-> <<Call("convert_from_path", 0)>> \o loop.calls]

NoUser == "None"

\* the filename "" and, as a value of another type, the empty list []
NoName == [type |-> "str", stem |-> "", ext |-> ""]
EmptyListName == [type |-> "list", stem |-> "", ext |-> ""]

\* an extraction step that process_document did not reach
NotRun == [ret |-> None, pages |-> <<>>, total_chars |-> 0, calls |-> <<>>]

\* what process_document returns (status, text_by_page, filename) and, for
\* the record, what it did on the way
Outcome(status, text_by_page, filename, method, fast, ocr_ran, ocr, calls) ==
    [status |-> status, text_by_page |-> text_by_page, filename |-> filename,
     method |-> method, fast |-> fast, ocr_ran |-> ocr_ran, ocr |-> ocr,
     calls |-> calls, sink |-> ""]

\* the Firestore write, as left by a variant without the try/except around
\* it: a failing write ends the handler with the exception
MetadataWriteRaising(o, sink_ok) ==
    IF sink_ok
    THEN [o EXCEPT !.calls = @ \o <<Call("firestore.add", 0)>>,
                   !.sink = "saved"]
    ELSE [o EXCEPT !.calls = @ \o <<Call("firestore.add", 0)>>,
                   !.sink = "raised", !.status = "error",
                   !.text_by_page = None, !.filename = NoName]

\* `db.collection('documents').add(...)` inside try/except: the write is
\* made; a failure is printed and the handler goes on
MetadataWrite(o, sink_ok) ==
    [o EXCEPT !.calls = @ \o <<Call("firestore.add", 0)>>,
              !.sink = IF sink_ok THEN "saved" ELSE "logged"]

\* `if total_chars < 100`, with the validation left out
BelowMinimumNever(total_chars) == FALSE

\* `if total_chars < 100`
BelowMinimum(total_chars) == total_chars < MIN_USABLE_CHARS

\* the guard `if not user_id`, left out
NotLoggedInNever(user_id) == FALSE

\* `if not user_id`
NotLoggedIn(user_id) == user_id = NoUser

\* the second step of process_document, entered whether or not the first
\* returned pages
NeedsOcrAlways(text_by_page) == TRUE

\* `if not text_by_page` after the first step
NeedsOcr(text_by_page) == Falsy(text_by_page)

\* the store process_document goes on with after the OCR step, as left by
\* a variant that keeps the text-layer pages when OCR did not read more
OcrStepKeepsLonger(fast, ocr) ==
    IF ocr.total_chars > fast.total_chars THEN ocr.ret
    ELSE IF Len(fast.pages) > 0 THEN Dict(fast.pages) ELSE ocr.ret

\* the same step, as left by a variant that keeps whatever pages the text
\* layer gave
OcrStepKeepsText(fast, ocr) ==
    IF Len(fast.pages) > 0 THEN Dict(fast.pages) ELSE ocr.ret

\* `text_by_page = ocr_pdf_with_cloud(file.name)`
OcrStep(fast, ocr) == ocr.ret

\* process_document(file, user_id, current_filename); sink_ok tells whether
\* the Firestore write goes through
process_document(file, user_id, key, sink_ok) ==
    IF NotLoggedIn(user_id)
    THEN Outcome("login_first", None, NoName, "", NotRun, FALSE, NotRun, <<>>)
    ELSE IF file.isNone
    THEN Outcome("no_file", None, NoName, "", NotRun, FALSE, NotRun, <<>>)
    ELSE IF Lower(file.ext) # "pdf"
    THEN Outcome("only_pdf", None, NoName, "", NotRun, FALSE, NotRun, <<>>)
    ELSE
    LET filename == [type |-> "str", stem |-> file.stem, ext |-> file.ext]
        fast == extract_text_from_pdf_fast(file.pdf)
    IN  IF NeedsOcr(fast.ret) /\ ~key
        THEN Outcome("no_ocr", None, NoName, "", fast, FALSE, NotRun,
                     fast.calls)
        ELSE
        LET ocr_ran == NeedsOcr(fast.ret)
            ocr == IF ocr_ran THEN ocr_pdf_with_cloud(file.pdf, key)
                   ELSE NotRun
            text_by_page == IF ocr_ran THEN OcrStep(fast, ocr) ELSE fast.ret
            extraction_method == IF ocr_ran THEN "Cloud OCR (Google Vision)"
                                 ELSE "Fast Text Extraction"
            calls == fast.calls \o ocr.calls
        IN  IF ocr_ran /\ Falsy(text_by_page)
            THEN Outcome("processing_failed", None, NoName, "", fast,
                         ocr_ran, ocr, calls)
            ELSE IF BelowMinimum(SumChars(text_by_page.items))
            THEN Outcome("insufficient", None, NoName, "", fast, ocr_ran,
                         ocr, calls)
            ELSE MetadataWrite(Outcome("success", text_by_page, filename,
                                       extraction_method, fast, ocr_ran, ocr,
                                       calls),
                               sink_ok)

----------------------------------------------------------------------------
(* QUESTION ANSWERING *)

\* a chat message {"role": ..., "content": ...}; the content is one of the
\* handler's fixed notices, the question, the answer or the error report
Turn(role, kind, text) == [role |-> role, kind |-> kind, text |-> text]

\* what the Chatbot component holds: a list of messages, or a value of
\* another type handed to it by a handler
ListValue(turns) == [type |-> "list", turns |-> turns]
StrValue == [type |-> "str", turns |-> <<>>]

\* the spec's context limits; the code has no such parameters
max_chunks == 10
chunk_page_group_size == 2

\* context_parts with the newest page first
RECURSIVE ContextPartsNewestFirst(_)
ContextPartsNewestFirst(items) ==
    IF Len(items) = 0 THEN <<>>
    ELSE ContextPartsNewestFirst(Tail(items))
         \o <<[page |-> items[1].page, text |-> Strip(items[1].text)]>>

\* context_parts cut after the first max_chunks sections
RECURSIVE ContextPartsCapped(_)
ContextPartsCapped(items) ==
    IF Len(items) = 0 THEN <<>>
    ELSE IF Len(items) > max_chunks
    THEN ContextPartsCapped(SubSeq(items, 1, max_chunks))
    ELSE <<[page |-> items[1].page, text |-> Strip(items[1].text)]>>
         \o ContextPartsCapped(Tail(items))

\* context_parts with one section for every two items, headed by the first
\* item's page
RECURSIVE ContextPartsGrouped(_)
ContextPartsGrouped(items) ==
    IF Len(items) = 0 THEN <<>>
    ELSE IF Len(items) < chunk_page_group_size
    THEN <<[page |-> items[1].page, text |-> Strip(items[1].text)]>>
    ELSE <<[page |-> items[1].page,
            text |-> Txt(items[1].text.tag, 0,
                         Strip(items[1].text).body + 2
                             + Strip(items[2].text).body)]>>
         \o ContextPartsGrouped(SubSeq(items, chunk_page_group_size + 1,
                                       Len(items)))

\* context_parts: one "=== PAGE n ===" section per item of text_by_page,
\* in the dict's order
RECURSIVE ContextParts(_)
ContextParts(items) ==
    IF Len(items) = 0 THEN <<>>
    ELSE <<[page |-> items[1].page, text |-> Strip(items[1].text)]>>
         \o ContextParts(Tail(items))

NoPrompt == [document |-> NoName, context |-> <<>>, question |-> EmptyStr]

\* `if not question or not question.strip()`, left out
BlankNever(question) == FALSE

\* `if not question or not question.strip()`
Blank(question) == ~Truthy(question) \/ ~Truthy(Strip(question))

\* `if not text_by_page`, left out
NoDocumentNever(text_by_page) == FALSE

\* `if not text_by_page` in answer_question
NoDocument(text_by_page) == Falsy(text_by_page)

\* a guard's early return, as left by a variant that returns the notice
\* alone
WithNoticeOnly(history, kind) == <<Turn("assistant", kind, EmptyStr)>>

\* `return history + [{"role": "assistant", "content": ...}], ""`
WithNotice(history, kind) == history \o <<Turn("assistant", kind, EmptyStr)>>

\* the completion request, as left by a variant that asks again when the
\* first request raises
CompletionCallsRetrying(completion) ==
    IF completion = "raise"
    THEN <<Call("groq.create", 0), Call("groq.create", 0)>>
    ELSE <<Call("groq.create", 0)>>

\* the try block of answer_question: one chat.completions.create, whose
\* exception is caught and reported
CompletionCalls(completion) == <<Call("groq.create", 0)>>

\* answer_question(question, text_by_page, history, user_id,
\* current_filename); completion is what the Groq call does: "answer" or
\* "raise"
answer_question(question, text_by_page, history, user_id, current_filename, completion) ==
    IF NotLoggedIn(user_id)
    THEN [history |-> WithNotice(history, "login_first"),
          prompt |-> NoPrompt, calls |-> <<>>, completion |-> ""]
    ELSE IF NoDocument(text_by_page)
    THEN [history |-> WithNotice(history, "no_document"),
          prompt |-> NoPrompt, calls |-> <<>>, completion |-> ""]
    ELSE IF Blank(question)
    THEN [history |-> WithNotice(history, "no_question"),
          prompt |-> NoPrompt, calls |-> <<>>, completion |-> ""]
    ELSE
    LET asked == Append(history, Turn("user", "question", question))
        prompt == [document |-> current_filename,
                   context |-> ContextParts(text_by_page.items),
                   question |-> question]
    IN  [history |-> Append(asked,
                        IF completion = "answer"
                        THEN Turn("assistant", "answer", EmptyStr)
                        ELSE Turn("assistant", "ai_error", EmptyStr)),
         prompt |-> prompt,
         calls |-> CompletionCalls(completion),
         completion |-> completion]

----------------------------------------------------------------------------
(* AUTHENTICATION *)

\* the users collection: one account
AccountEmail == "ca@firm.in"
AccountPassword == "secret"
AccountId == "u1"

Emails == {"  ", " CA@Firm.in ", "who@firm.in"}
Passwords == {"  ", "secret", "wrong"}

\* email.strip().lower() on the inputs above
StripLower(email) ==
    CASE email = "  " -> ""
      [] email = " CA@Firm.in " -> "ca@firm.in"
      [] OTHER -> email

\* a refusal whose visibility updates are those of the welcome return
RefusedShowsDashboard(status) ==
    [status |-> status, user_id |-> NoUser,
     login_screen |-> FALSE, dashboard |-> TRUE]

\* the return of every refused login: the message, None, the login screen
\* shown and the dashboard hidden
Refused(status) ==
    [status |-> status, user_id |-> NoUser,
     login_screen |-> TRUE, dashboard |-> FALSE]

\* login_user(email, password); lookup is what the Firestore query does:
\* "ok" or "raise"
login_user(email, password, lookup) ==
    IF email = "" \/ StripLower(email) = ""
    THEN Refused("no_email")
    ELSE IF password \in {"", "  "}
    THEN Refused("no_password")
    ELSE IF lookup = "raise"
    THEN Refused("error")
    ELSE IF StripLower(email) # AccountEmail
    THEN Refused("no_account")
    ELSE IF password = AccountPassword
    THEN [status |-> "welcome", user_id |-> AccountId,
          login_screen |-> FALSE, dashboard |-> TRUE]
    ELSE Refused("bad_password")

\* logout_user(): the tuple it returns, by position
logout_user ==
    <<"None", "None", "[]", "", "", TRUE, FALSE, "Logged out">>

----------------------------------------------------------------------------
(* UI: the session state and the event handlers' wiring *)

NoDoc == Outcome("", None, NoName, "", NotRun, FALSE, NotRun, <<>>)

NoAsk == [history |-> <<>>, prompt |-> NoPrompt, calls |-> <<>>,
          completion |-> ""]

\* the record of a handler run: its name, the arguments it was called with
\* and what it did
Run(handler, user_id, file, question, text_by_page, history, doc, ask) ==
    [handler |-> handler, user_id |-> user_id, file |-> file,
     question |-> question, text_by_page |-> text_by_page,
     history |-> history, doc |-> doc, ask |-> ask,
     calls |-> doc.calls \o ask.calls]

NoRun == Run("", NoUser, NoFile, EmptyStr, None, <<>>, NoDoc, NoAsk)

\* the value a handler returns, as the value its output component takes
AsUser(v) == IF v = "None" THEN NoUser ELSE v
AsStore(v) == IF v = "None" THEN None ELSE Dict(<<>>)
AsName(v) == IF v = "[]" THEN EmptyListName ELSE NoName
AsChat(v) == IF v = "[]" THEN ListValue(<<>>) ELSE StrValue

\* an answer_question call between its start and its return: the arguments
\* it was started with, how many items of text_by_page its loop has read
\* and the context_parts built so far
Pending(question, text_by_page, history, user_id, current_filename, pos, context_parts) ==
    [active |-> TRUE, question |-> question, text_by_page |-> text_by_page,
     history |-> history, user_id |-> user_id,
     current_filename |-> current_filename, pos |-> pos,
     context_parts |-> context_parts]

NoPending ==
    [active |-> FALSE, question |-> EmptyStr, text_by_page |-> None,
     history |-> <<>>, user_id |-> NoUser, current_filename |-> NoName,
     pos |-> 0, context_parts |-> <<>>]

\* the dict a running handler reads, were its parameter an alias of the
\* session's state rather than of the object it was called with
StoreSeenThroughState(captured, current) == current

\* the dict a running answer_question reads: the object it was called with.
\* process_document fills a dict of its own (`text_by_page = {}`) and the
\* click replaces the State's value by it; the object handed out earlier is
\* not written to.
StoreSeenByReader(captured, current) == captured

\* the messages the Chatbot component passes to a handler
ChatbotInput(value) == value.turns

\* the files a user of the session uploads
SessionFiles ==
    { FileOf("return", "pdf",
             [readable |-> TRUE, rasterizes |-> TRUE,
              layer |-> <<[kind |-> "text", text |-> Txt("L", 0, 501)],
                          [kind |-> "text", text |-> Txt("L", 0, 60)]>>,
              scan |-> DeadVision(2)]),
      FileOf("scanned", "PDF",
             [readable |-> TRUE, rasterizes |-> TRUE,
              layer |-> <<[kind |-> "none", text |-> EmptyStr],
                          [kind |-> "text", text |-> Txt("L", 1, 0)]>>,
              scan |-> <<[kind |-> "text", text |-> Txt("O", 0, 600)],
                         [kind |-> "timeout", text |-> EmptyStr]>>]),
      FileOf("memo", "pdf",
             [readable |-> TRUE, rasterizes |-> TRUE,
              layer |-> <<[kind |-> "text", text |-> Txt("L", 1, 250)]>>,
              scan |-> <<[kind |-> "no_annotation", text |-> EmptyStr]>>]),
      FileOf("notes", "txt", NoPdf) }

Init ==
    /\ user_id_state = NoUser
    /\ text_by_page_state = None
    /\ current_filename_state = NoName
    /\ chatbot = ListValue(<<>>)
    /\ question_input = EmptyStr
    /\ login_screen = TRUE
    /\ dashboard = FALSE
    /\ login_status = ""
    /\ process_output = ""
    /\ file_input = NoFile
    /\ GOOGLE_VISION_API_KEY \in BOOLEAN
    /\ last = NoRun
    /\ pending = NoPending

\* the user picks a file in file_input, or clears it
Upload ==
    /\ file_input' \in SessionFiles \cup {NoFile}
    /\ file_input' # file_input
    /\ UNCHANGED <<user_id_state, text_by_page_state, current_filename_state,
                   chatbot, question_input, login_screen, dashboard,
                   login_status, process_output, GOOGLE_VISION_API_KEY, last,
                   pending>>

\* login_btn.click
LoginClick ==
    \E email \in Emails, password \in Passwords, lookup \in {"ok", "raise"} :
        LET r == login_user(email, password, lookup)
        IN  /\ login_status' = r.status
            /\ user_id_state' = r.user_id
            /\ login_screen' = r.login_screen
            /\ dashboard' = r.dashboard
            /\ last' = Run("login_user", NoUser, NoFile, EmptyStr, None, <<>>,
                           NoDoc, NoAsk)
            /\ UNCHANGED <<text_by_page_state, current_filename_state,
                           chatbot, question_input, process_output,
                           file_input, GOOGLE_VISION_API_KEY, pending>>

\* process_btn.click
ProcessClick ==
    \E sink_ok \in BOOLEAN :
        LET r == process_document(file_input, user_id_state,
                                  GOOGLE_VISION_API_KEY, sink_ok)
        IN  /\ process_output' = r.status
            /\ text_by_page_state' = r.text_by_page
            /\ current_filename_state' = r.filename
            /\ last' = Run("process_document", user_id_state, file_input,
                           EmptyStr, None, <<>>, r, NoAsk)
            /\ UNCHANGED <<user_id_state, chatbot, question_input,
                           login_screen, dashboard, login_status, file_input,
                           GOOGLE_VISION_API_KEY, pending>>

Questions == {EmptyStr, Txt("Q", 2, 0), Txt("Q", 1, 12)}

\* ask_btn.click, on the question typed into question_input
AskClick ==
    \E question \in Questions, completion \in {"answer", "raise"} :
        LET history == ChatbotInput(chatbot)
            r == answer_question(question, text_by_page_state, history,
                                 user_id_state, current_filename_state,
                                 completion)
        IN  /\ Len(history) < MaxHistory
            /\ chatbot' = ListValue(r.history)
            /\ question_input' = EmptyStr
            /\ last' = Run("answer_question", user_id_state, NoFile, question,
                           text_by_page_state, history, NoDoc, r)
            /\ UNCHANGED <<user_id_state, text_by_page_state,
                           current_filename_state, login_screen, dashboard,
                           login_status, process_output, file_input,
                           GOOGLE_VISION_API_KEY, pending>>

\* logout_btn.click: the returned tuple goes, by position, to
\* [user_id_state, text_by_page_state, current_filename_state, chatbot,
\*  question_input, login_screen, dashboard, login_status]
LogoutClick ==
    LET r == logout_user
    IN  /\ user_id_state' = AsUser(r[1])
        /\ text_by_page_state' = AsStore(r[2])
        /\ current_filename_state' = AsName(r[3])
        /\ chatbot' = AsChat(r[4])
        /\ question_input' = EmptyStr
        /\ login_screen' = r[6]
        /\ dashboard' = r[7]
        /\ login_status' = r[8]
        /\ last' = Run("logout_user", NoUser, NoFile, EmptyStr, None, <<>>,
                       NoDoc, NoAsk)
        /\ UNCHANGED <<process_output, file_input, GOOGLE_VISION_API_KEY,
                       pending>>

\* ask_btn.click, up to the guards: the handler is entered with the
\* session's values of that moment.  One call is in flight at a time (an
\* event listener's default concurrency limit is 1).
AskBegin ==
    \E question \in Questions :
        LET history == ChatbotInput(chatbot)
        IN  /\ ~pending.active
            /\ Len(history) < MaxHistory
            /\ pending' = Pending(question, text_by_page_state, history,
                                  user_id_state, current_filename_state,
                                  0, <<>>)
            /\ UNCHANGED <<user_id_state, text_by_page_state,
                           current_filename_state, chatbot, question_input,
                           login_screen, dashboard, login_status,
                           process_output, file_input, GOOGLE_VISION_API_KEY,
                           last>>

\* the call in flight passed the three guards
PastGuards(p) ==
    /\ ~NotLoggedIn(p.user_id)
    /\ ~NoDocument(p.text_by_page)
    /\ ~Blank(p.question)

\* the items the loop of the call in flight iterates over
ItemsRead(p) ==
    LET d == StoreSeenByReader(p.text_by_page, text_by_page_state)
    IN  IF d.isNone THEN <<>> ELSE d.items

\* one iteration of `for page, text in text_by_page.items()`
AskRead ==
    /\ pending.active
    /\ PastGuards(pending)
    /\ pending.pos < Len(ItemsRead(pending))
    /\ pending' =
          [pending EXCEPT
             !.pos = @ + 1,
             !.context_parts =
                 @ \o ContextParts(<<ItemsRead(pending)[pending.pos + 1]>>)]
    /\ UNCHANGED <<user_id_state, text_by_page_state, current_filename_state,
                   chatbot, question_input, login_screen, dashboard,
                   login_status, process_output, file_input,
                   GOOGLE_VISION_API_KEY, last>>

\* the rest of the call in flight: the completion request and the return,
\* written to [chatbot, question_input]
AskEnd ==
    \E completion \in {"answer", "raise"} :
        LET p == pending
            r == answer_question(p.question, p.text_by_page, p.history,
                                 p.user_id, p.current_filename, completion)
            done == IF PastGuards(p)
                    THEN [r EXCEPT !.prompt.context = p.context_parts]
                    ELSE r
        IN  /\ p.active
            /\ PastGuards(p) => p.pos >= Len(ItemsRead(p))
            /\ chatbot' = ListValue(done.history)
            /\ question_input' = EmptyStr
            /\ last' = Run("answer_question", p.user_id, NoFile, p.question,
                           p.text_by_page, p.history, NoDoc, done)
            /\ pending' = NoPending
            /\ UNCHANGED <<user_id_state, text_by_page_state,
                           current_filename_state, login_screen, dashboard,
                           login_status, process_output, file_input,
                           GOOGLE_VISION_API_KEY>>

Next ==
    \/ Upload
    \/ LoginClick
    \/ ProcessClick
    \/ AskClick
    \/ LogoutClick

Spec == Init /\ [][Next]_vars

\* process_document on its own, over every file of the bounded set: the
\* session is as a login left it or not, a file is in file_input, and the
\* button is clicked.
InitCascade ==
    /\ user_id_state \in {NoUser, AccountId}
    /\ text_by_page_state = None
    /\ current_filename_state = NoName
    /\ chatbot = ListValue(<<>>)
    /\ question_input = EmptyStr
    /\ login_screen = (user_id_state = NoUser)
    /\ dashboard = (user_id_state # NoUser)
    /\ login_status = ""
    /\ process_output = ""
    /\ file_input \in Files \cup {NoFile}
    /\ GOOGLE_VISION_API_KEY \in BOOLEAN
    /\ last = NoRun
    /\ pending = NoPending

NextCascade == ProcessClick

SpecCascade == InitCascade /\ [][NextCascade]_vars

\* the text a processed document's store holds for page p: stripped and
\* not empty
StoredText(p) == Txt("L", 0, 100 * p)

\* the items of the store of a document whose pages in S gave text: the
\* extraction loops insert the pages in ascending order
RECURSIVE StoreItems(_, _)
StoreItems(p, S) ==
    IF p > MaxStorePages THEN <<>>
    ELSE (IF p \in S THEN <<[page |-> p, text |-> StoredText(p)]>>
          ELSE <<>>)
         \o StoreItems(p + 1, S)

\* the stores a successful process_document leaves in the session
Stores == { Dict(StoreItems(1, S)) : S \in (SUBSET (1 .. MaxStorePages)) \ {{}} }

\* answer_question on its own, over every store of the bounded set: the
\* session is as a login left it or not, with a processed document or none.
InitAsk ==
    /\ user_id_state \in {NoUser, AccountId}
    /\ text_by_page_state \in Stores \cup {None}
    /\ current_filename_state =
          (IF text_by_page_state.isNone THEN NoName
           ELSE [type |-> "str", stem |-> "return", ext |-> "pdf"])
    /\ chatbot = ListValue(<<>>)
    /\ question_input = EmptyStr
    /\ login_screen = (user_id_state = NoUser)
    /\ dashboard = (user_id_state # NoUser)
    /\ login_status = ""
    /\ process_output = (IF text_by_page_state.isNone THEN "" ELSE "success")
    /\ file_input = NoFile
    /\ GOOGLE_VISION_API_KEY \in BOOLEAN
    /\ last = NoRun
    /\ pending = NoPending

NextAsk == AskClick

SpecAsk == InitAsk /\ [][NextAsk]_vars

\* The session with answer_question running step by step, so that a
\* process_btn.click can complete while a question is in flight.
\* The session is as a successful login left it.
InitReprocess ==
    /\ user_id_state = AccountId
    /\ text_by_page_state = None
    /\ current_filename_state = NoName
    /\ chatbot = ListValue(<<>>)
    /\ question_input = EmptyStr
    /\ login_screen = FALSE
    /\ dashboard = TRUE
    /\ login_status = "welcome"
    /\ process_output = ""
    /\ file_input = NoFile
    /\ GOOGLE_VISION_API_KEY \in BOOLEAN
    /\ last = NoRun
    /\ pending = NoPending

NextReprocess ==
    \/ Upload
    \/ ProcessClick
    \/ AskBegin
    \/ AskRead
    \/ AskEnd

SpecReprocess == InitReprocess /\ [][NextReprocess]_vars

----------------------------------------------------------------------------
(* Properties.  What a file holds is measured here from the file itself,   *)
(* not from what the handlers computed.                                    *)

\* the pages of a PDF whose text layer gives non-blank text, with it
LayerText(pdf) ==
    IF pdf.readable
    THEN { <<p, Strip(pdf.layer[p].text)>> :
             p \in { q \in DOMAIN pdf.layer :
                       pdf.layer[q].kind = "text"
                       /\ pdf.layer[q].text.body > 0 } }
    ELSE {}

\* the pages of a PDF for which the Vision endpoint answers non-blank text
VisionText(pdf) ==
    IF pdf.rasterizes
    THEN { <<p, Strip(pdf.scan[p].text)>> :
             p \in { q \in DOMAIN pdf.scan :
                       pdf.scan[q].kind = "text"
                       /\ pdf.scan[q].text.body > 0 } }
    ELSE {}

RECURSIVE Chars(_)
Chars(S) ==
    IF S = {} THEN 0
    ELSE LET x == CHOOSE y \in S : TRUE
         IN  x[2].body + Chars(S \ {x})

\* the store holds exactly the pages of S, each once, in page order
Holds(store, S) ==
    /\ ~store.isNone
    /\ { <<store.items[i].page, store.items[i].text>> :
           i \in DOMAIN store.items } = S
    /\ \A i, j \in DOMAIN store.items :
           i < j => store.items[i].page < store.items[j].page

OcrCalls(calls) ==
    { i \in DOMAIN calls : calls[i].op \in {"convert_from_path",
                                            "requests.post"} }

LayerCalls(calls) ==
    { i \in DOMAIN calls : calls[i].op \in {"PdfReader", "extract_text"} }

\* the last handler run was process_document and it got to the extraction
Extracting ==
    /\ last.handler = "process_document"
    /\ last.user_id # NoUser
    /\ ~last.file.isNone
    /\ last.file.ext \in {"pdf", "PDF"}

\* ... and the cloud OCR attempt was made
OcrAttempted ==
    /\ Extracting
    /\ GOOGLE_VISION_API_KEY
    /\ Chars(LayerText(last.file.pdf)) <= QUALITY_THRESHOLD

\* C1: a document whose text layer gives more than 500 characters is
\* processed with no OCR call at all (no rasterization, no Vision request)
\* and reported as read by the text-layer method; any OCR call comes after
\* every text-layer call of the run, and only when the text layer gave no
\* more than 500 characters.
C1_NoOcrAboveThreshold ==
    Extracting =>
        LET d == last.doc
            total == Chars(LayerText(last.file.pdf))
        IN  /\ total > QUALITY_THRESHOLD =>
                  /\ OcrCalls(d.calls) = {}
                  /\ d.status = "success"
                  /\ d.method = "Fast Text Extraction"
            /\ \A i \in OcrCalls(d.calls) :
                  /\ total <= QUALITY_THRESHOLD
                  /\ \A j \in LayerCalls(d.calls) : j < i
                  /\ Cardinality(LayerCalls(d.calls)) =
                        1 + (IF last.file.pdf.readable
                             THEN Len(last.file.pdf.layer) ELSE 0)

C1_Witness ==
    /\ Extracting
    /\ GOOGLE_VISION_API_KEY
    /\ last.file.pdf.rasterizes
    /\ Chars(LayerText(last.file.pdf)) > QUALITY_THRESHOLD
    /\ Chars(VisionText(last.file.pdf)) > QUALITY_THRESHOLD
    /\ last.doc.status = "success"

\* C2 as stated: a text-layer total of 500 characters or more, exactly 500
\* included, is accepted and the run stops without OCR.
C2_AcceptsAtThreshold ==
    (Extracting /\ Chars(LayerText(last.file.pdf)) >= QUALITY_THRESHOLD) =>
        /\ last.doc.status = "success"
        /\ Holds(last.doc.text_by_page, LayerText(last.file.pdf))
        /\ OcrCalls(last.doc.calls) = {}

\* C2 amended: a text-layer total of more than 500 characters is accepted
\* and the run stops without OCR; a total of exactly 500 is not accepted:
\* the run goes on to cloud OCR, or fails when no key is configured.
C2_AcceptsAboveThreshold ==
    Extracting =>
        LET d == last.doc
            total == Chars(LayerText(last.file.pdf))
        IN  /\ total > QUALITY_THRESHOLD =>
                  /\ d.status = "success"
                  /\ Holds(d.text_by_page, LayerText(last.file.pdf))
                  /\ OcrCalls(d.calls) = {}
            /\ total = QUALITY_THRESHOLD =>
                  /\ d.method # "Fast Text Extraction"
                  /\ IF GOOGLE_VISION_API_KEY
                     THEN OcrCalls(d.calls) # {}
                     ELSE d.status = "no_ocr" /\ d.text_by_page = None

C2_Witness ==
    /\ Extracting
    /\ GOOGLE_VISION_API_KEY
    /\ Chars(LayerText(last.file.pdf)) = QUALITY_THRESHOLD
    /\ last.doc.status = "success"
    /\ last.doc.method = "Cloud OCR (Google Vision)"

\* C3 as stated: when the text-layer attempt and the OCR attempt both ran,
\* the store returned is the one with strictly more characters, and the
\* text-layer store is kept on a tie or when OCR gave fewer.
C3_KeepsLongerStore ==
    (OcrAttempted /\ last.doc.status = "success") =>
        IF Chars(VisionText(last.file.pdf)) > Chars(LayerText(last.file.pdf))
        THEN Holds(last.doc.text_by_page, VisionText(last.file.pdf))
        ELSE Holds(last.doc.text_by_page, LayerText(last.file.pdf))

\* C3 amended: a store returned after the OCR attempt ran is the OCR
\* attempt's store, whichever attempt gave more characters; the text-layer
\* store is returned only when it passed the gate and no OCR attempt ran.
C3_KeepsOcrStore ==
    (Extracting /\ last.doc.status = "success") =>
        IF OcrAttempted
        THEN /\ Holds(last.doc.text_by_page, VisionText(last.file.pdf))
             /\ last.doc.method = "Cloud OCR (Google Vision)"
        ELSE /\ Holds(last.doc.text_by_page, LayerText(last.file.pdf))
             /\ last.doc.method = "Fast Text Extraction"

C3_Witness ==
    /\ OcrAttempted
    /\ last.doc.status = "success"
    /\ Chars(VisionText(last.file.pdf)) < Chars(LayerText(last.file.pdf))

\* C4: when the text layer gives fewer characters than the threshold and
\* the OCR attempt gives more characters than the text layer, the store
\* returned is the OCR attempt's (same pages, same text), never the text
\* layer's; it is returned whenever the OCR attempt gave at least 100
\* characters.
C4_OcrResultReturned ==
    (/\ OcrAttempted
     /\ Chars(LayerText(last.file.pdf)) < QUALITY_THRESHOLD
     /\ Chars(VisionText(last.file.pdf)) > Chars(LayerText(last.file.pdf))) =>
        /\ last.doc.status = "success" =>
              /\ Holds(last.doc.text_by_page, VisionText(last.file.pdf))
              /\ ~Holds(last.doc.text_by_page, LayerText(last.file.pdf))
        /\ Chars(VisionText(last.file.pdf)) >= MIN_USABLE_CHARS =>
              last.doc.status = "success"

C4_Witness ==
    /\ OcrAttempted
    /\ LayerText(last.file.pdf) # {}
    /\ Chars(VisionText(last.file.pdf)) > Chars(LayerText(last.file.pdf))
    /\ last.doc.status = "success"
    /\ text_by_page_state = last.doc.text_by_page

\* C5: a store returned as a success has at least one page with text and
\* at least 100 characters in all; a run that is not a success returns no
\* store; a document all of whose pages are empty under every attempt is
\* never a success.
C5_SuccessIsUsable ==
    last.handler = "process_document" =>
        LET store == last.doc.text_by_page
        IN  /\ last.doc.status = "success" =>
                  /\ ~store.isNone
                  /\ Len(store.items) >= 1
                  /\ \A i \in DOMAIN store.items :
                         store.items[i].text.body > 0
                  /\ Chars({ <<store.items[i].page, store.items[i].text>> :
                               i \in DOMAIN store.items }) >= MIN_USABLE_CHARS
            /\ last.doc.status # "success" => store = None
            /\ (LayerText(last.file.pdf) = {}
                /\ VisionText(last.file.pdf) = {}) =>
                   last.doc.status # "success"
            /\ text_by_page_state = store

C5_Witness ==
    /\ OcrAttempted
    /\ last.doc.status = "success"
    /\ Chars(VisionText(last.file.pdf)) = MIN_USABLE_CHARS

\* C6: whenever an attempt that ran gave at least 100 characters (the text
\* layer, or the OCR attempt when it was made), the run is a success.
C6_FailsOnlyIfUnusable ==
    (/\ Extracting
     /\ \/ Chars(LayerText(last.file.pdf)) >= MIN_USABLE_CHARS
        \/ OcrAttempted
           /\ Chars(VisionText(last.file.pdf)) >= MIN_USABLE_CHARS) =>
        last.doc.status = "success"

\* the PDF with every page whose text layer raises taken as a page without
\* text, and every page whose Vision request fails as a page on which no
\* text was found
Calm(pdf) ==
    [pdf EXCEPT
       !.layer = [p \in DOMAIN pdf.layer |->
                    IF pdf.layer[p].kind = "raise"
                    THEN [kind |-> "none", text |-> EmptyStr]
                    ELSE pdf.layer[p]],
       !.scan = [p \in DOMAIN pdf.scan |->
                    IF pdf.scan[p].kind \in {"timeout", "http_error"}
                    THEN [kind |-> "no_annotation", text |-> EmptyStr]
                    ELSE pdf.scan[p]]]

\* C7: a page that fails (extract_text raises; the Vision request times out
\* or is answered with another status than 200) does not abort its attempt:
\* every other page that gives text is in the attempt's pages under its own
\* number with its own text, and the attempt returns what it returns for
\* the same document with the failing pages merely empty.
C7_PageFailureContained ==
    Extracting =>
        LET pdf == last.file.pdf
            d == last.doc
        IN  /\ pdf.readable => Holds(Dict(d.fast.pages), LayerText(pdf))
            /\ d.fast.ret = extract_text_from_pdf_fast(Calm(pdf)).ret
            /\ (OcrAttempted /\ pdf.rasterizes) =>
                  /\ Holds(Dict(d.ocr.pages), VisionText(pdf))
                  /\ d.ocr.ret = ocr_pdf_with_cloud(Calm(pdf), TRUE).ret

C7_Witness ==
    /\ OcrAttempted
    /\ last.file.pdf.readable
    /\ last.file.pdf.rasterizes
    /\ \E p \in DOMAIN last.file.pdf.layer :
           last.file.pdf.layer[p].kind = "raise"
    /\ \E p \in DOMAIN last.file.pdf.scan :
           last.file.pdf.scan[p].kind \in {"timeout", "http_error"}
    /\ Len(last.doc.fast.pages) >= 1
    /\ Len(last.doc.ocr.pages) >= 1
    /\ last.doc.status = "success"

\* the requests posted to the Vision endpoint for page p
Posts(calls, p) == { i \in DOMAIN calls : calls[i] = Call("requests.post", p) }

----------------------------------------------------------------------------
(* Properties of the session *)

Notices == {"login_first", "no_document", "no_question"}

\* C9: answer_question called with no processed document (the store absent
\* or empty) or with a blank question (empty or whitespace only) makes no
\* completion call; it appends the notice of the user error and nothing
\* else.
C9_NoCompletionCallOnUserError ==
    (/\ last.handler = "answer_question"
     /\ \/ last.text_by_page.isNone
        \/ Len(last.text_by_page.items) = 0
        \/ last.question.body = 0) =>
        /\ last.ask.calls = <<>>
        /\ Len(last.ask.history) = Len(last.history) + 1
        /\ last.ask.history[Len(last.ask.history)].role = "assistant"
        /\ last.ask.history[Len(last.ask.history)].kind \in Notices
        /\ chatbot = ListValue(last.ask.history)

C9_Witness ==
    /\ last.handler = "answer_question"
    /\ last.user_id # NoUser
    /\ ~last.text_by_page.isNone
    /\ last.question.ws > 0
    /\ last.question.body = 0
    /\ last.ask.history[Len(last.ask.history)].kind = "no_question"

\* C10: a handler invoked while the session holds no user handle makes no
\* external call: no text extraction, no OCR call, no metadata write, no
\* completion call; process_document then returns no store and
\* answer_question only the login notice.
C10_NoHandleNoWork ==
    (last.handler \in {"process_document", "answer_question"}
     /\ last.user_id = NoUser) =>
        /\ last.calls = <<>>
        /\ last.doc.calls = <<>>
        /\ last.ask.calls = <<>>
        /\ last.handler = "process_document" =>
               last.doc.status = "login_first" /\ text_by_page_state = None
        /\ last.handler = "answer_question" =>
               last.ask.history[Len(last.ask.history)].kind = "login_first"

C10_Witness ==
    /\ last.handler = "process_document"
    /\ last.user_id = NoUser
    /\ user_id_state = NoUser
    /\ login_status = "Logged out"
    /\ ~file_input.isNone
    /\ file_input.ext = "pdf"
    /\ Len(chatbot.turns) > 0

\* the last handler run was answer_question and it accepted the question
Accepted ==
    /\ last.handler = "answer_question"
    /\ last.user_id # NoUser
    /\ ~last.text_by_page.isNone
    /\ Len(last.text_by_page.items) > 0
    /\ last.question.body > 0

\* C11: an accepted question causes exactly one completion request, also
\* when the request fails; the failure is reported by exactly one assistant
\* message, appended after the question.
C11_OneCompletionRequest ==
    Accepted =>
        LET n == Len(last.history)
            after == last.ask.history
        IN  /\ last.ask.calls = <<Call("groq.create", 0)>>
            /\ Len(after) = n + 2
            /\ after[n + 1] = Turn("user", "question", last.question)
            /\ after[n + 2].role = "assistant"
            /\ last.ask.completion = "raise" => after[n + 2].kind = "ai_error"
            /\ last.ask.completion = "answer" => after[n + 2].kind = "answer"
            /\ Cardinality({ i \in DOMAIN after :
                               after[i].kind = "ai_error" /\ i > n })
                   = (IF last.ask.completion = "raise" THEN 1 ELSE 0)

C11_Witness ==
    /\ Accepted
    /\ last.ask.completion = "raise"
    /\ chatbot = ListValue(last.ask.history)
    /\ Len(last.history) > 0

SinkCalls(calls) == { i \in DOMAIN calls : calls[i].op = "firestore.add" }

\* C12: the metadata write is made only by a run whose extraction
\* succeeded, once, after every extraction call; whether the write goes
\* through or fails, the run returns the same status, store and name.
C12_SinkFailureIsHarmless ==
    last.handler = "process_document" =>
        LET d == last.doc
            saved == process_document(last.file, last.user_id,
                                      GOOGLE_VISION_API_KEY, TRUE)
        IN  /\ SinkCalls(d.calls) # {} <=> d.status = "success"
            /\ d.status # "success" => d.sink = ""
            /\ SinkCalls(d.calls) \subseteq {Len(d.calls)}
            /\ d.status = saved.status
            /\ d.text_by_page = saved.text_by_page
            /\ d.filename = saved.filename
            /\ text_by_page_state = saved.text_by_page
            /\ current_filename_state = saved.filename

C12_Witness ==
    /\ last.handler = "process_document"
    /\ last.doc.sink = "logged"
    /\ last.doc.status = "success"
    /\ ~text_by_page_state.isNone

\* C13 as stated: a file is rejected as unsupported, before any extraction,
\* exactly when it is neither a PDF nor a raster image.
C13_RejectsUnlessPdfOrImage ==
    (last.handler = "process_document" /\ last.user_id # NoUser
     /\ ~last.file.isNone) =>
        (last.doc.status = "only_pdf"
            <=> last.file.ext \notin {"pdf", "PDF", "png"})

\* C13 amended: a file is rejected as unsupported, before any extraction,
\* OCR call or metadata write, exactly when its extension, whatever its
\* case, is not pdf; a raster image is rejected too.
C13_RejectsUnlessPdf ==
    (last.handler = "process_document" /\ last.user_id # NoUser
     /\ ~last.file.isNone) =>
        /\ last.doc.status = "only_pdf"
              <=> last.file.ext \notin {"pdf", "PDF"}
        /\ last.doc.status = "only_pdf" =>
              /\ last.doc.calls = <<>>
              /\ last.doc.text_by_page = None
        /\ last.file.ext \in {"pdf", "PDF"} => last.doc.calls # <<>>

C13_Witness ==
    /\ last.handler = "process_document"
    /\ last.user_id # NoUser
    /\ last.file.ext = "png"
    /\ last.doc.status = "only_pdf"

\* C14: a process_document run that fails leaves the session's store and
\* document name as they were before the click.
C14_FailureKeepsStore ==
    [][(ProcessClick /\ process_output' # "success") =>
           /\ text_by_page_state' = text_by_page_state
           /\ current_filename_state' = current_filename_state]_vars

\* C15: after logout the user handle is none, the store is none, the
\* document name is the empty string and the conversation has no turn.
C15_LogoutClears ==
    last.handler = "logout_user" =>
        /\ user_id_state = NoUser
        /\ text_by_page_state = None
        /\ current_filename_state = NoName
        /\ ChatbotInput(chatbot) = <<>>

\* before is a prefix of after
IsPrefix(before, after) ==
    /\ Len(before) <= Len(after)
    /\ SubSeq(after, 1, Len(before)) = before

\* C16: on every path of answer_question the conversation it returns, and
\* the Chatbot then holds, starts with the whole conversation it was given,
\* turn for turn, and is longer.
C16_ConversationAppendOnly ==
    last.handler = "answer_question" =>
        /\ IsPrefix(last.history, last.ask.history)
        /\ Len(last.ask.history) > Len(last.history)
        /\ chatbot = ListValue(last.ask.history)

C16_Witness ==
    /\ last.handler = "answer_question"
    /\ Len(last.history) > 0
    /\ ~Accepted
    /\ Len(ChatbotInput(chatbot)) = Len(last.history) + 1

\* C17: an answer_question call in flight builds its context from the
\* store it was started with, whatever process_document does to the
\* session meanwhile: at every step of the loop and at the return, the
\* sections are those of that one store, in its order.
C17_OneStoreVersion ==
    /\ (pending.active /\ PastGuards(pending)) =>
          /\ pending.pos <= Len(pending.text_by_page.items)
          /\ pending.context_parts =
                ContextParts(SubSeq(pending.text_by_page.items,
                                    1, pending.pos))
    /\ Accepted =>
          last.ask.prompt.context = ContextParts(last.text_by_page.items)

\* the loop is between two pages of the store it was started with, and the
\* session already holds another store
C17_Witness ==
    /\ pending.active
    /\ PastGuards(pending)
    /\ pending.pos = 1
    /\ Len(pending.text_by_page.items) > 1
    /\ ~text_by_page_state.isNone
    /\ text_by_page_state # pending.text_by_page
    /\ last.handler = "process_document"
    /\ last.doc.status = "success"

\* the elements of a sequence
Range(seq) == { seq[i] : i \in DOMAIN seq }

\* the page numbers of a sequence of sections or of items, in order
PageNumbers(seq) == [i \in DOMAIN seq |-> seq[i].page]

\* C18: the page numbers of the context's sections, read in order, are the
\* store's page numbers in the store's order, each once, in ascending order.
C18_ContextPagesAreStorePages ==
    Accepted =>
        LET sections == PageNumbers(last.ask.prompt.context)
        IN  /\ sections = PageNumbers(last.text_by_page.items)
            /\ \A i, j \in DOMAIN sections :
                   i < j => sections[i] < sections[j]

C18_Witness ==
    /\ Accepted
    /\ PageNumbers(last.ask.prompt.context) = <<1, 3, 4>>
    /\ last.ask.completion = "answer"

\* C19 as stated: the context sent to the completion service never holds
\* more than max_chunks sections.
C19_ContextBounded ==
    Accepted => Len(last.ask.prompt.context) <= max_chunks

\* C19 amended: the context is not bounded; it holds a section for every
\* page of the store, however many, also beyond max_chunks, and the request
\* is still made with it.
C19_ContextHoldsEveryPage ==
    Accepted =>
        /\ Len(last.ask.prompt.context) = Len(last.text_by_page.items)
        /\ { s.page : s \in Range(last.ask.prompt.context) }
              = { it.page : it \in Range(last.text_by_page.items) }
        /\ Len(last.ask.calls) = 1

C19_Witness ==
    /\ Accepted
    /\ Len(last.text_by_page.items) > max_chunks
    /\ Len(last.ask.prompt.context) > max_chunks
    /\ Len(last.ask.calls) = 1

\* C20 as stated: the pages go into the context in consecutive groups of
\* chunk_page_group_size, the last group possibly smaller.
C20_PagesGroupedByTwo ==
    Accepted =>
        Len(last.ask.prompt.context) =
            (Len(last.text_by_page.items) + chunk_page_group_size - 1)
                \div chunk_page_group_size

\* C20 amended: the pages are not grouped; each section of the context
\* covers one page of the store and holds that page's stripped text, so a
\* 5-page store yields 5 sections.
C20_OneSectionPerPage ==
    Accepted =>
        LET sections == last.ask.prompt.context
            items == last.text_by_page.items
        IN  /\ DOMAIN sections = DOMAIN items
            /\ \A i \in DOMAIN sections :
                   /\ sections[i].page = items[i].page
                   /\ sections[i].text = Strip(items[i].text)

C20_Witness ==
    /\ Accepted
    /\ PageNumbers(last.text_by_page.items) = <<1, 2, 3, 4, 5>>
    /\ Len(last.ask.prompt.context) = 5

\* the statuses of a refused login
RefusedStatuses == {"no_email", "no_password", "no_account", "bad_password", "error"}

\* C21: whatever logins and logouts have happened, the dashboard is shown
\* exactly when the session holds a user handle and the login screen
\* exactly when it holds none; after a refused login it holds none.
C21_ScreensFollowHandle ==
    /\ dashboard <=> user_id_state # NoUser
    /\ login_screen <=> user_id_state = NoUser
    /\ (last.handler = "login_user" /\ login_status \in RefusedStatuses) =>
           user_id_state = NoUser
    /\ (last.handler = "login_user" /\ login_status = "welcome") =>
           user_id_state = AccountId

\* a login was refused in a session that had been logged in and had
\* processed a document
C21_Witness ==
    /\ last.handler = "login_user"
    /\ login_status = "bad_password"
    /\ process_output = "success"
    /\ user_id_state = NoUser
    /\ login_screen
    /\ ~dashboard

\* the turns a call of answer_question added to the conversation
Appended == SubSeq(last.ask.history, Len(last.history) + 1, Len(last.ask.history))

\* C22: a rejected question adds exactly one assistant turn and no user
\* turn; an accepted one adds exactly one user turn holding the question
\* and then exactly one assistant turn, the answer or the error message.
C22_AppendedShape ==
    last.handler = "answer_question" =>
        IF Accepted
        THEN /\ Len(Appended) = 2
             /\ Appended[1] = Turn("user", "question", last.question)
             /\ Appended[2].role = "assistant"
             /\ Appended[2].kind \in {"answer", "ai_error"}
        ELSE /\ Len(Appended) = 1
             /\ Appended[1].role = "assistant"
             /\ Appended[1].kind \in {"login_first", "no_document", "no_question"}

\* an accepted question right after a rejected one
C22_Witness ==
    /\ Accepted
    /\ Len(last.history) = 1
    /\ last.history[1].kind = "no_question"
    /\ last.ask.completion = "answer"
    /\ Len(ChatbotInput(chatbot)) = 3

====
